---- MODULE Spec2Model ----
(***************************************************************************)
(* Model of klippy/extras/fd2hs.py: the dual hall-sensor filament diameter *)
(* sensor (class FD2HS).                                                   *)
(*                                                                         *)
(* Units.  Diameters and hall readings are integers in 1/100 mm (1.75 mm   *)
(* is 175).  Extruder positions and the measurement delay are integers in  *)
(* mm.  ADC read times are integers in units of 5 ms (0.01 s is 2).        *)
(* Reactor event times are integers in seconds.                            *)
(*                                                                         *)
(* save_array_to_file (lines 118-126) does not compile and touches only    *)
(* _prev_fillament_array_hash, which no handler reads; the call at line    *)
(* 145 is modelled as leaving the state alone.  _array_changed (lines 138, *)
(* 144) is written and never read, and is not part of the state.           *)
(***************************************************************************)
EXTENDS Integers, Sequences, FiniteSets, TLC

\* ---------------------------------------------------------------- bounds
\* largest extruder position the toolhead reports
MaxPos == 11
\* largest ADC read time (units of 5 ms)
MaxReadTime == 2
\* largest reactor event time handed to the timer callback
MaxEventTime == 1

\* ------------------------------------------------------ program constants
MEASUREMENT_INTERVAL_MM == 5
MAX_SENSORS_TIME_DIFF == 2
\* "if self.lastFilamentWidthReading > 0.5" (line 154)
PRESENCE_THRESHOLD == 50
\* "M221 S100" (lines 168, 170, 187, 212)
NEUTRAL == 100
\* reactor.NOW and reactor.NEVER (lines 102, 197, 208)
NOW == 0
NEVER == -1
FILAMENT_MAX_DIA == 300
FILAMENT_MIN_DIA == 100
FILAMENT_DEFAULT_NOMINAL_DIA == 175

\* ------------------------------------------------------------- inputs
\* extruder positions pos[3] the toolhead can report
Positions == {0, 2, 5, MaxPos}
\* averaged ADC readings delivered to the hall callbacks
ReadValues == {40, 260}
ReadTimes == 0..MaxReadTime
EventTimes == 0..MaxEventTime
\* configurations accepted by __init__ (min < nominal < max, delay > 0)
Configs ==
    { [nominal |-> 200, min |-> 150, max |-> 260, delay |-> 6],
      [nominal |-> 175, min |-> 160, max |-> 300, delay |-> 3],
      [nominal |-> 175, min |-> 100, max |-> 250, delay |-> 7] }

\* values the configuration file can give to __init__
PinOptions == {"PA0", "PA1"}
NominalOptions == {FILAMENT_DEFAULT_NOMINAL_DIA, 200}
MaxOptions == {FILAMENT_MAX_DIA, 260, 175}
MinOptions == {FILAMENT_MIN_DIA, 150, 200}
DelayOptions == {0, 6}

\* lines 64-65
AdcCallbacks == {"adc:hall_1_callback", "adc:hall_2_callback"}
\* lines 80-92
HandlersAndCommands ==
    {"event:klippy:ready", "timer:extrude_factor_update_event",
     "gcode:QUERY_FILAMENT_WIDTH", "gcode:RESET_FILAMENT_WIDTH_SENSOR",
     "gcode:DISABLE_FILAMENT_WIDTH_SENSOR",
     "gcode:ENABLE_FILAMENT_WIDTH_SENSOR"}

\* values for fields that hold nothing
Unset == -1
NoItem == <<>>
NoResponse == <<>>

VARIABLES
    nominal_filament_dia,       \* config, line 67
    max_diameter,               \* config, line 68
    min_diameter,               \* config, line 69
    measurement_delay,          \* config, line 72
    filament_array,             \* sequence of <<position, filamentWidth>>
    lastFilamentWidthReading,
    last_hall_1_read_time,      \* Unset until hall_1_callback has run
    last_hall_1_read_value,
    toolhead,                   \* "None" until klippy:ready
    extrude_factor_update_timer,\* waketime of the reactor timer
    is_active,
    epos,                       \* toolhead.get_position()[3]
    error,                      \* a handler raised
    \* history of the last handler that ran
    last_call,                  \* its name
    scripts,                    \* the M221 S values it ran, in order
    item,                       \* the entry popped at line 160, or NoItem
    array_after_update,         \* filament_array when line 152 returned
    response,                   \* the text given to gcode.respond, or NoResponse
    pc,                         \* where __init__ stands; "done" once it returned
    registered                  \* callbacks, handlers and commands registered

vars == << nominal_filament_dia, max_diameter, min_diameter,
           measurement_delay, filament_array, lastFilamentWidthReading,
           last_hall_1_read_time, last_hall_1_read_value, toolhead,
           extrude_factor_update_timer, is_active, epos, error,
           last_call, scripts, item, array_after_update, response,
           pc, registered >>

\* what only __init__ assigns
config_vars == << nominal_filament_dia, max_diameter, min_diameter,
                  measurement_delay, pc, registered >>

\* ------------------------------------------------------------- helpers
abs(x) == IF x < 0 THEN -x ELSE x

\* round(a / b) for a >= 0, b > 0.  No tie occurs for the quotients of
\* line 164: 200 * n^2 = (2k+1) * w^2 has no integer solution.
round(a, b) == (2 * a + b) \div (2 * b)

\* lines 164-165: round(nominal**2 / filament_width**2 * 100)
percentage(filament_width) ==
    round(nominal_filament_dia * nominal_filament_dia * 100,
          filament_width * filament_width)

\* update_filament_array appending whatever the spacing (mutant)
update_filament_array_unspaced(arr, last_epos) ==
    Append(arr, << last_epos + measurement_delay, lastFilamentWidthReading >>)

\* update_filament_array storing the position without the delay (mutant)
update_filament_array_undelayed(arr, last_epos) ==
    IF Len(arr) > 0
    THEN IF arr[Len(arr)][1] + MEASUREMENT_INTERVAL_MM <= last_epos
         THEN Append(arr, << last_epos, lastFilamentWidthReading >>)
         ELSE arr
    ELSE Append(arr, << last_epos, lastFilamentWidthReading >>)

\* update_filament_array with "<" for "<=" at line 134 (mutant)
update_filament_array_strict(arr, last_epos) ==
    IF Len(arr) > 0
    THEN IF arr[Len(arr)][1] + MEASUREMENT_INTERVAL_MM
               < (last_epos + measurement_delay)
         THEN Append(arr, << last_epos + measurement_delay,
                             lastFilamentWidthReading >>)
         ELSE arr
    ELSE Append(arr, << measurement_delay + last_epos,
                        lastFilamentWidthReading >>)

\* update_filament_array without "+ MEASUREMENT_INTERVAL_MM" at line 133
\* (mutant)
update_filament_array_no_interval(arr, last_epos) ==
    IF Len(arr) > 0
    THEN IF arr[Len(arr)][1] <= (last_epos + measurement_delay)
         THEN Append(arr, << last_epos + measurement_delay,
                             lastFilamentWidthReading >>)
         ELSE arr
    ELSE Append(arr, << measurement_delay + last_epos,
                        lastFilamentWidthReading >>)

\* lines 128-145: the array after update_filament_array(last_epos)
update_filament_array(arr, last_epos) ==
    IF Len(arr) > 0
    THEN LET next_reading_position == arr[Len(arr)][1] + MEASUREMENT_INTERVAL_MM
         IN  IF next_reading_position <= (last_epos + measurement_delay)
             THEN Append(arr, << last_epos + measurement_delay,
                                 lastFilamentWidthReading >>)
             ELSE arr
    ELSE Append(arr, << measurement_delay + last_epos,
                        lastFilamentWidthReading >>)

\* the presence test of cmd_M407 (line 176) used in the tick (mutant)
filament_exists_as_query(width) == width > 0

\* the tick without its presence test (mutant)
filament_exists_always(width) == TRUE

\* line 154: "Does filament exists"
filament_exists(width) == width > PRESENCE_THRESHOLD

\* popping every due entry instead of the first (mutant)
array_after_pop_all_due(arr, last_epos) ==
    SelectSeq(arr, LAMBDA e : e[1] > last_epos)

\* reading the first entry without removing it (mutant)
array_after_pop_none(arr, last_epos) == arr

\* line 160: the array after filament_array.pop(0)
array_after_pop(arr, last_epos) == Tail(arr)

\* the script computed from the latest reading, not the item (mutant)
item_script_latest(filament_width) ==
    IF (lastFilamentWidthReading <= max_diameter)
       /\ (lastFilamentWidthReading >= min_diameter)
    THEN percentage(lastFilamentWidthReading)
    ELSE NEUTRAL

\* the script without the range check of lines 162-163 (mutant)
item_script_unchecked(filament_width) == percentage(filament_width)

\* lines 162-168: the script run for a popped item
item_script(filament_width) ==
    IF (filament_width <= max_diameter) /\ (filament_width >= min_diameter)
    THEN percentage(filament_width)
    ELSE NEUTRAL

\* ---------------------------------------------------------------- Init
\* the object after __init__ returned (lines 41-94)
Init ==
    /\ \E c \in Configs :
          /\ nominal_filament_dia = c.nominal
          /\ max_diameter = c.max
          /\ min_diameter = c.min
          /\ measurement_delay = c.delay
    /\ filament_array = << >>
    /\ lastFilamentWidthReading = 0
    /\ last_hall_1_read_time = Unset
    /\ last_hall_1_read_value = Unset
    /\ toolhead = "None"
    /\ extrude_factor_update_timer = NEVER
    /\ is_active = TRUE
    /\ epos \in Positions
    /\ error = FALSE
    /\ last_call = "__init__"
    /\ scripts = << >>
    /\ item = NoItem
    /\ array_after_update = << >>
    /\ response = NoResponse
    /\ pc = "done"
    /\ registered = AdcCallbacks \cup HandlersAndCommands

\* ------------------------------------------------------------- actions
\* the toolhead moves the extruder (forward or backward)
toolhead_move(p) ==
    /\ ~error
    /\ p # epos
    /\ epos' = p
    /\ last_call' = "move"
    /\ response' = NoResponse
    /\ scripts' = << >>
    /\ item' = NoItem
    /\ array_after_update' = << >>
    /\ UNCHANGED << config_vars, filament_array, lastFilamentWidthReading,
                    last_hall_1_read_time, last_hall_1_read_value, toolhead,
                    extrude_factor_update_timer, is_active, error >>

\* lines 97-102; klippy:ready is sent once
handle_ready ==
    /\ ~error
    /\ toolhead = "None"
    /\ toolhead' = "toolhead"
    /\ extrude_factor_update_timer' = NOW
    /\ last_call' = "handle_ready"
    /\ response' = NoResponse
    /\ scripts' = << >>
    /\ item' = NoItem
    /\ array_after_update' = << >>
    /\ UNCHANGED << config_vars, filament_array, lastFilamentWidthReading,
                    last_hall_1_read_time, last_hall_1_read_value,
                    is_active, epos, error >>

\* lines 104-107
hall_1_callback(read_time, read_value) ==
    /\ ~error
    /\ last_hall_1_read_time' = read_time
    /\ last_hall_1_read_value' = read_value
    /\ last_call' = "hall_1_callback"
    /\ response' = NoResponse
    /\ scripts' = << >>
    /\ item' = NoItem
    /\ array_after_update' = << >>
    /\ UNCHANGED << config_vars, filament_array, lastFilamentWidthReading,
                    toolhead, extrude_factor_update_timer, is_active, epos,
                    error >>

\* hall_2_callback with "<=" for "<" at line 113 (mutant)
hall_2_callback_inclusive(read_time, read_value) ==
    /\ ~error
    /\ IF last_hall_1_read_time = Unset
       THEN /\ error' = TRUE
            /\ UNCHANGED lastFilamentWidthReading
       ELSE /\ UNCHANGED error
            /\ IF abs(read_time - last_hall_1_read_time)
                    <= MAX_SENSORS_TIME_DIFF
               THEN lastFilamentWidthReading' =
                      (last_hall_1_read_value + read_value) \div 2
               ELSE UNCHANGED lastFilamentWidthReading
    /\ last_call' = "hall_2_callback"
    /\ response' = NoResponse
    /\ scripts' = << >>
    /\ item' = NoItem
    /\ array_after_update' = << >>
    /\ UNCHANGED << config_vars, filament_array, last_hall_1_read_time,
                    last_hall_1_read_value, toolhead,
                    extrude_factor_update_timer, is_active, epos >>

\* lines 109-116.  last_hall_2_read_time and last_hall_2_reading are
\* written and read only inside this callback.  Reading
\* last_hall_1_read_time before hall_1_callback has set it raises.
hall_2_callback(read_time, read_value) ==
    /\ ~error
    /\ LET last_hall_2_read_time == read_time
           last_hall_2_reading == read_value
       IN  IF last_hall_1_read_time = Unset
           THEN /\ error' = TRUE
                /\ UNCHANGED lastFilamentWidthReading
           ELSE /\ UNCHANGED error
                /\ IF abs(last_hall_2_read_time - last_hall_1_read_time)
                        < MAX_SENSORS_TIME_DIFF
                   THEN lastFilamentWidthReading' =
                          (last_hall_1_read_value + last_hall_2_reading) \div 2
                   ELSE UNCHANGED lastFilamentWidthReading
    /\ last_call' = "hall_2_callback"
    /\ response' = NoResponse
    /\ scripts' = << >>
    /\ item' = NoItem
    /\ array_after_update' = << >>
    /\ UNCHANGED << config_vars, filament_array, last_hall_1_read_time,
                    last_hall_1_read_value, toolhead,
                    extrude_factor_update_timer, is_active, epos >>

\* the timer rescheduled at the time of the tick itself (mutant)
next_waketime_same(eventtime) == eventtime

\* line 172: the wake time the tick returns
next_waketime(eventtime) == eventtime + 1

\* lines 147-172, run by the reactor when the timer is not at NEVER.  The
\* reactor's clock is not modelled: eventtime is any event time.  With
\* toolhead still None, line 149 raises before anything is changed.
extrude_factor_update_event(eventtime) ==
    /\ ~error
    /\ extrude_factor_update_timer # NEVER
    /\ last_call' = "extrude_factor_update_event"
    /\ response' = NoResponse
    /\ IF toolhead = "None"
       THEN /\ error' = TRUE
            /\ scripts' = << >>
            /\ item' = NoItem
            /\ array_after_update' = << >>
            /\ UNCHANGED << filament_array, extrude_factor_update_timer >>
       ELSE LET last_epos == epos
                arr == update_filament_array(filament_array, last_epos)
            IN  /\ array_after_update' = arr
                /\ UNCHANGED error
                /\ extrude_factor_update_timer' = next_waketime(eventtime)
                /\ IF filament_exists(lastFilamentWidthReading)
                   THEN IF Len(arr) > 0 /\ arr[1][1] <= last_epos
                        THEN /\ item' = arr[1]
                             /\ filament_array' = array_after_pop(arr, last_epos)
                             /\ scripts' = << item_script(arr[1][2]) >>
                        ELSE /\ item' = NoItem
                             /\ filament_array' = arr
                             /\ scripts' = << >>
                   ELSE /\ item' = NoItem
                        /\ scripts' = << NEUTRAL >>
                        /\ filament_array' = << >>
    /\ UNCHANGED << config_vars, lastFilamentWidthReading,
                    last_hall_1_read_time, last_hall_1_read_value, toolhead,
                    is_active, epos >>

\* lines 175-180: the response of cmd_M407
M407_response(width) ==
    IF width > 0
    THEN << "Filament dia (measured mm): ", width >>
    ELSE << "Filament NOT present" >>

\* lines 174-181
cmd_M407 ==
    /\ ~error
    /\ last_call' = "cmd_M407"
    /\ response' = M407_response(lastFilamentWidthReading)
    /\ scripts' = << >>
    /\ item' = NoItem
    /\ array_after_update' = << >>
    /\ UNCHANGED << config_vars, filament_array, lastFilamentWidthReading,
                    last_hall_1_read_time, last_hall_1_read_value, toolhead,
                    extrude_factor_update_timer, is_active, epos, error >>

\* cmd_ClearFilamentArray also stopping the timer, as cmd_M406 does (mutant)
cmd_ClearFilamentArray_stops_timer ==
    /\ ~error
    /\ filament_array' = << >>
    /\ extrude_factor_update_timer' = NEVER
    /\ last_call' = "cmd_ClearFilamentArray"
    /\ response' = << "Filament width measurements cleared!" >>
    /\ scripts' = << NEUTRAL >>
    /\ item' = NoItem
    /\ array_after_update' = << >>
    /\ UNCHANGED << config_vars, lastFilamentWidthReading,
                    last_hall_1_read_time, last_hall_1_read_value, toolhead,
                    is_active, epos, error >>

\* lines 183-187
cmd_ClearFilamentArray ==
    /\ ~error
    /\ filament_array' = << >>
    /\ last_call' = "cmd_ClearFilamentArray"
    /\ response' = << "Filament width measurements cleared!" >>
    /\ scripts' = << NEUTRAL >>
    /\ item' = NoItem
    /\ array_after_update' = << >>
    /\ UNCHANGED << config_vars, lastFilamentWidthReading,
                    last_hall_1_read_time, last_hall_1_read_value, toolhead,
                    extrude_factor_update_timer, is_active, epos, error >>

\* cmd_M405 restarting the timer whatever is_active (mutant)
cmd_M405_always_restarts ==
    /\ ~error
    /\ is_active' = TRUE
    /\ extrude_factor_update_timer' = NOW
    /\ last_call' = "cmd_M405"
    /\ response' = IF is_active
                   THEN << "Filament width sensor is already On" >>
                   ELSE << "Filament width sensor Turned On" >>
    /\ scripts' = << >>
    /\ item' = NoItem
    /\ array_after_update' = << >>
    /\ UNCHANGED << config_vars, filament_array, lastFilamentWidthReading,
                    last_hall_1_read_time, last_hall_1_read_value, toolhead,
                    epos, error >>

\* lines 189-198
cmd_M405 ==
    /\ ~error
    /\ IF is_active
       THEN UNCHANGED << is_active, extrude_factor_update_timer >>
       ELSE /\ is_active' = TRUE
            /\ extrude_factor_update_timer' = NOW
    /\ last_call' = "cmd_M405"
    /\ response' = IF is_active
                   THEN << "Filament width sensor is already On" >>
                   ELSE << "Filament width sensor Turned On" >>
    /\ scripts' = << >>
    /\ item' = NoItem
    /\ array_after_update' = << >>
    /\ UNCHANGED << config_vars, filament_array, lastFilamentWidthReading,
                    last_hall_1_read_time, last_hall_1_read_value, toolhead,
                    epos, error >>

\* cmd_M406 without line 210 (mutant)
cmd_M406_keeps_array ==
    /\ ~error
    /\ IF ~is_active
       THEN /\ UNCHANGED << is_active, extrude_factor_update_timer >>
            /\ scripts' = << >>
       ELSE /\ is_active' = FALSE
            /\ extrude_factor_update_timer' = NEVER
            /\ scripts' = << NEUTRAL >>
    /\ last_call' = "cmd_M406"
    /\ response' = IF ~is_active
                   THEN << "Filament width sensor is already Off" >>
                   ELSE << "Filament width sensor Turned Off" >>
    /\ item' = NoItem
    /\ array_after_update' = << >>
    /\ UNCHANGED << config_vars, filament_array, lastFilamentWidthReading,
                    last_hall_1_read_time, last_hall_1_read_value, toolhead,
                    epos, error >>

\* lines 200-213
cmd_M406 ==
    /\ ~error
    /\ IF ~is_active
       THEN /\ UNCHANGED << is_active, extrude_factor_update_timer,
                            filament_array >>
            /\ scripts' = << >>
       ELSE /\ is_active' = FALSE
            /\ extrude_factor_update_timer' = NEVER
            /\ filament_array' = << >>
            /\ scripts' = << NEUTRAL >>
    /\ last_call' = "cmd_M406"
    /\ response' = IF ~is_active
                   THEN << "Filament width sensor is already Off" >>
                   ELSE << "Filament width sensor Turned Off" >>
    /\ item' = NoItem
    /\ array_after_update' = << >>
    /\ UNCHANGED << config_vars, lastFilamentWidthReading,
                    last_hall_1_read_time, last_hall_1_read_value, toolhead,
                    epos, error >>

Next ==
    \/ \E p \in Positions : toolhead_move(p)
    \/ handle_ready
    \/ \E t \in ReadTimes, v \in ReadValues : hall_1_callback(t, v)
    \/ \E t \in ReadTimes, v \in ReadValues : hall_2_callback(t, v)
    \/ \E t \in EventTimes : extrude_factor_update_event(t)
    \/ cmd_M407
    \/ cmd_ClearFilamentArray
    \/ cmd_M405
    \/ cmd_M406

Spec == Init /\ [][Next]_vars

\* the extruder only feeds: the position the toolhead reports never
\* decreases
toolhead_forward(p) == p > epos /\ toolhead_move(p)

NextMono ==
    \/ \E p \in Positions : toolhead_forward(p)
    \/ handle_ready
    \/ \E t \in ReadTimes, v \in ReadValues : hall_1_callback(t, v)
    \/ \E t \in ReadTimes, v \in ReadValues : hall_2_callback(t, v)
    \/ \E t \in EventTimes : extrude_factor_update_event(t)
    \/ cmd_M407
    \/ cmd_ClearFilamentArray
    \/ cmd_M405
    \/ cmd_M406

SpecMono == Init /\ [][NextMono]_vars

\* The tick returns a wake time (line 172), so the reactor keeps running
\* it for as long as the timer is not set to NEVER.
\* The configuration is the one of Configs given here, whose delay is
\* longer than the measurement interval and lets a backlog form.
LiveConfig == [nominal |-> 200, min |-> 150, max |-> 260, delay |-> 6]

InitLive ==
    /\ Init
    /\ nominal_filament_dia = LiveConfig.nominal
    /\ max_diameter = LiveConfig.max
    /\ min_diameter = LiveConfig.min
    /\ measurement_delay = LiveConfig.delay

SpecLive ==
    /\ InitLive
    /\ [][Next]_vars
    /\ WF_vars(\E t \in EventTimes : extrude_factor_update_event(t))


\* ------------------------------------------------------------ __init__
\* The steps of __init__ (lines 41-94), for the configuration the file
\* gives.  "printer" at lines 59-60 is read as self.printer of line 42.
\* A field not yet assigned holds Unset (or the empty or false value of
\* its type).
InitCtor ==
    /\ nominal_filament_dia = Unset
    /\ max_diameter = Unset
    /\ min_diameter = Unset
    /\ measurement_delay = Unset
    /\ filament_array = << >>
    /\ lastFilamentWidthReading = Unset
    /\ last_hall_1_read_time = Unset
    /\ last_hall_1_read_value = Unset
    /\ toolhead = "None"
    /\ extrude_factor_update_timer = NEVER
    /\ is_active = FALSE
    /\ epos \in Positions
    /\ error = FALSE
    /\ last_call = "load_config"
    /\ scripts = << >>
    /\ item = NoItem
    /\ array_after_update = << >>
    /\ response = NoResponse
    /\ pc = "dump_file"
    /\ registered = {}

runtime_vars == << filament_array, lastFilamentWidthReading,
                   last_hall_1_read_time, last_hall_1_read_value, toolhead,
                   extrude_factor_update_timer, is_active, epos, error,
                   last_call, scripts, item, array_after_update, response >>

\* lines 45-51: the dump file can or cannot be opened
init_dump_file(can_open) ==
    /\ pc = "dump_file"
    /\ pc' = IF can_open THEN "pins" ELSE "config_error"
    /\ UNCHANGED << nominal_filament_dia, max_diameter, min_diameter,
                    measurement_delay, registered, runtime_vars >>

\* lines 53-56
init_pins(pin1, pin2) ==
    /\ pc = "pins"
    /\ pc' = IF pin1 = pin2 THEN "config_error" ELSE "adc"
    /\ UNCHANGED << nominal_filament_dia, max_diameter, min_diameter,
                    measurement_delay, registered, runtime_vars >>

\* lines 58-65
init_adc ==
    /\ pc = "adc"
    /\ registered' = registered \cup AdcCallbacks
    /\ pc' = "diameters"
    /\ UNCHANGED << nominal_filament_dia, max_diameter, min_diameter,
                    measurement_delay, runtime_vars >>

\* lines 67-71
init_diameters(nominal, max, min) ==
    /\ pc = "diameters"
    /\ nominal_filament_dia' = nominal
    /\ max_diameter' = max
    /\ min_diameter' = min
    /\ pc' = IF ~(min < nominal /\ nominal < max)
             THEN "config_error"
             ELSE "delay"
    /\ UNCHANGED << measurement_delay, registered, runtime_vars >>

\* line 72: getfloat(above=0.) raises the configuration error itself
init_delay(delay) ==
    /\ pc = "delay"
    /\ IF delay > 0
       THEN /\ measurement_delay' = delay
            /\ pc' = "fields"
       ELSE /\ UNCHANGED measurement_delay
            /\ pc' = "config_error"
    /\ UNCHANGED << nominal_filament_dia, max_diameter, min_diameter,
                    registered, runtime_vars >>

\* lines 74-94
init_fields ==
    /\ pc = "fields"
    /\ filament_array' = << >>
    /\ lastFilamentWidthReading' = 0
    /\ toolhead' = "None"
    /\ registered' = registered \cup HandlersAndCommands
    /\ extrude_factor_update_timer' = NEVER
    /\ is_active' = TRUE
    /\ last_call' = "__init__"
    /\ pc' = "done"
    /\ UNCHANGED << nominal_filament_dia, max_diameter, min_diameter,
                    measurement_delay, last_hall_1_read_time,
                    last_hall_1_read_value, epos, error, scripts, item,
                    array_after_update, response >>

NextCtor ==
    \/ \E can_open \in BOOLEAN : init_dump_file(can_open)
    \/ \E pin1 \in PinOptions, pin2 \in PinOptions : init_pins(pin1, pin2)
    \/ init_adc
    \/ \E nominal \in NominalOptions, max \in MaxOptions, min \in MinOptions :
          init_diameters(nominal, max, min)
    \/ \E delay \in DelayOptions : init_delay(delay)
    \/ init_fields

\* load_config: __init__ from its first line to its return or its raise
SpecInit == InitCtor /\ [][NextCtor]_vars

\* ================================================================ claims
\* the last handler was a controller tick that ran to its return
TickRan == last_call = "extrude_factor_update_event" /\ ~error
\* this step is a controller tick that runs to its return
TickStep == last_call' = "extrude_factor_update_event" /\ ~error'

InRange(w) == min_diameter <= w /\ w <= max_diameter

\* m is the integer nearest to (nominal / w)^2 * 100
NearestToRatio(m, w) ==
    LET d == m * w * w - 100 * nominal_filament_dia * nominal_filament_dia
    IN  2 * (IF d < 0 THEN -d ELSE d) <= w * w

\* C1: a tick that dequeues an entry whose diameter is within
\* [min_diameter, max_diameter] emits exactly one multiplier, the integer
\* nearest to (nominal / diameter)^2 * 100 for the diameter stored in the
\* dequeued entry (the head of the queue), whatever the latest sample is.
C1_MultiplierOfDequeuedEntry ==
    (TickRan /\ item # NoItem /\ InRange(item[2]))
        => /\ item = array_after_update[1]
           /\ Len(scripts) = 1
           /\ NearestToRatio(scripts[1], item[2])

\* C1 witness: an in-range entry was dequeued while the latest sample is a
\* different, in-range diameter with a different ratio, and the ratio of
\* the entry rounds upwards.
C1_Witness ==
    /\ TickRan /\ item # NoItem /\ InRange(item[2])
    /\ InRange(lastFilamentWidthReading)
    /\ lastFilamentWidthReading # item[2]
    /\ ~NearestToRatio(scripts[1], lastFilamentWidthReading)
    /\ scripts[1] * item[2] * item[2]
          > 100 * nominal_filament_dia * nominal_filament_dia

\* C2: a tick that dequeues an entry whose diameter is below min_diameter
\* or above max_diameter emits 100 and nothing else; an entry whose
\* diameter equals min_diameter or max_diameter gets the computed ratio.
C2_OutOfRangeIsNeutral ==
    (TickRan /\ item # NoItem)
        => /\ (item[2] < min_diameter \/ item[2] > max_diameter)
                 => scripts = << NEUTRAL >>
           /\ (item[2] = min_diameter \/ item[2] = max_diameter)
                 => (Len(scripts) = 1 /\ NearestToRatio(scripts[1], item[2]))

\* C2 witness: an entry above max_diameter was dequeued, its computed ratio
\* is not 100, and 100 was emitted.
C2_Witness ==
    /\ TickRan /\ item # NoItem
    /\ item[2] > max_diameter
    /\ ~NearestToRatio(NEUTRAL, item[2])
    /\ scripts = << NEUTRAL >>

\* C2 witness of the bounds: entries equal to min_diameter were dequeued.
C2_WitnessBound ==
    /\ TickRan /\ item # NoItem
    /\ item[2] = min_diameter
    /\ scripts # << NEUTRAL >>

Spaced(arr) ==
    \A i \in 1..(Len(arr) - 1) :
        arr[i + 1][1] >= arr[i][1] + MEASUREMENT_INTERVAL_MM

\* C3: in every reachable state the delay queue is in ascending order of
\* trigger position and consecutive entries are at least
\* MEASUREMENT_INTERVAL_MM apart, also inside a tick right after the
\* enqueue.
C3_QueueSpaced == Spaced(filament_array) /\ Spaced(array_after_update)

\* C3 witness: a tick ran with the extruder behind the position of the
\* last enqueue (the position decreased) and the queue holds two entries.
C3_Witness ==
    /\ TickRan
    /\ Len(filament_array) >= 2
    /\ epos + measurement_delay < filament_array[Len(filament_array)][1]

\* C4: a tick at position p that enqueues stores trigger position
\* p + measurement_delay; a tick dequeues an entry only if its own position
\* is at or past the entry's trigger position, and the entry it dequeues
\* was in the queue before the tick (not enqueued by the same tick).
C4_DelayRespected ==
    [][ TickStep =>
          /\ (array_after_update' # filament_array)
                => array_after_update'[Len(array_after_update')][1]
                      = epos + measurement_delay
          /\ (item' # NoItem)
                => /\ item'[1] <= epos
                   /\ Len(filament_array) > 0
                   /\ item' = filament_array[1] ]_vars

\* C4 witness: a tick dequeued an entry exactly at its trigger position and
\* enqueued another one in the same tick.
C4_Witness ==
    /\ TickRan /\ item # NoItem
    /\ item[1] = epos
    /\ Len(filament_array) > 0
    /\ filament_array[Len(filament_array)][1] = epos + measurement_delay

\* C4 witness: a tick enqueued into an empty queue and dequeued nothing.
C4_WitnessFirst ==
    /\ TickRan /\ item = NoItem
    /\ filament_exists(lastFilamentWidthReading)
    /\ filament_array = << << epos + measurement_delay,
                             lastFilamentWidthReading >> >>

\* C5: cmd_M406 run while is_active leaves is_active false, the queue
\* empty, the timer at NEVER and has run exactly one script, M221 S100.
C5_DisableWhileActive ==
    [][ (is_active /\ last_call' = "cmd_M406")
          => /\ ~is_active'
             /\ filament_array' = << >>
             /\ extrude_factor_update_timer' = NEVER
             /\ scripts' = << NEUTRAL >> ]_vars

\* C5 witness: cmd_M406 ran after klippy:ready, the controller is inactive
\* and the neutral multiplier was emitted.
C5_Witness ==
    /\ last_call = "cmd_M406"
    /\ ~is_active
    /\ toolhead # "None"
    /\ scripts = << NEUTRAL >>
    /\ extrude_factor_update_timer = NEVER
    /\ filament_array = << >>

\* C6: once cmd_M406 has made the controller inactive, no controller tick
\* runs until cmd_M405 makes it active again, in every ordering of the
\* commands, the callbacks and klippy:ready.  (is_active starts true and
\* only cmd_M406 clears it, so a tick has then run with is_active true.)
C6_NoTickWhileInactive ==
    (last_call = "extrude_factor_update_event") => is_active

\* C7: when cmd_M405 makes the controller active again after a cmd_M406,
\* the queue is empty (only ticks enqueue, so it is still empty when the
\* first tick after the enable starts, and that tick can dequeue nothing
\* that was enqueued before the enable).
C7_QueueEmptyAtEnable ==
    [][ (~is_active /\ is_active') => filament_array' = << >> ]_vars

\* C8: a tick on which the latest diameter is below the presence threshold
\* emits 100 and nothing else, dequeues nothing and leaves the queue
\* empty, whatever was queued and whether or not the head was due.
C8_AbsentClears ==
    (TickRan /\ lastFilamentWidthReading < PRESENCE_THRESHOLD)
        => /\ scripts = << NEUTRAL >>
           /\ item = NoItem
           /\ filament_array = << >>

\* C8 witness: such a tick ran on a non-zero reading with two entries
\* pending, the head of which was due.
C8_Witness ==
    /\ TickRan
    /\ lastFilamentWidthReading < PRESENCE_THRESHOLD
    /\ lastFilamentWidthReading > 0
    /\ Len(array_after_update) >= 3
    /\ array_after_update[1][1] <= epos
    /\ filament_array = << >>

\* C9: the enqueue of a tick at position p appends exactly
\* <<p + measurement_delay, latest diameter>> at the tail if the queue is
\* empty or p + measurement_delay >= last trigger position +
\* MEASUREMENT_INTERVAL_MM, and leaves the queue unchanged otherwise.
C9_EnqueueRule ==
    [][ TickStep =>
          array_after_update' =
            IF \/ filament_array = << >>
               \/ epos + measurement_delay
                     >= filament_array[Len(filament_array)][1]
                          + MEASUREMENT_INTERVAL_MM
            THEN filament_array
                   \o << << epos + measurement_delay,
                            lastFilamentWidthReading >> >>
            ELSE filament_array ]_vars

\* C9 witness: after an enqueue at position 0, the enqueue of a tick at
\* position 2 was rejected and the queue length stayed 1.
C9_Witness ==
    /\ TickRan
    /\ epos = 2
    /\ array_after_update = filament_array
    /\ Len(filament_array) = 1
    /\ filament_array[1][1] = 0 + measurement_delay

\* C9 witness: an enqueue exactly MEASUREMENT_INTERVAL_MM past the last
\* entry was accepted.
C9_WitnessAccepted ==
    /\ TickRan
    /\ Len(array_after_update) >= 2
    /\ array_after_update[Len(array_after_update)][1]
          = array_after_update[Len(array_after_update) - 1][1]
              + MEASUREMENT_INTERVAL_MM
    /\ array_after_update[Len(array_after_update)][1]
          = epos + measurement_delay

IsPrefix(a, b) == Len(a) <= Len(b) /\ SubSeq(b, 1, Len(a)) = a

\* of the entries queued before this step, all but possibly the head are
\* still queued after it, at the front and in their order
HeadOnlyRemoved ==
    \/ IsPrefix(filament_array, filament_array')
    \/ /\ Len(filament_array) > 0
       /\ IsPrefix(Tail(filament_array), filament_array')

\* C10 as stated: every tick removes at most one entry, the head, and
\* leaves the other entries queued in their order.
C10_Original == [][ TickStep => HeadOnlyRemoved ]_vars

\* C10 amended: a tick on which the latest diameter is above the presence
\* threshold removes at most one entry, the head, and leaves the other
\* entries, due or not, queued in their order; the entry removed is the
\* one the tick dequeued.
C10_OnePopPerTick ==
    [][ (TickStep /\ lastFilamentWidthReading > PRESENCE_THRESHOLD)
          => /\ HeadOnlyRemoved
             /\ Len(filament_array') >= Len(array_after_update') - 1
             /\ (~IsPrefix(filament_array, filament_array'))
                   => item' = filament_array[1] ]_vars

\* C10 witness: a tick dequeued the head and left a due entry queued.
C10_Witness ==
    /\ TickRan /\ item # NoItem
    /\ lastFilamentWidthReading > PRESENCE_THRESHOLD
    /\ Len(filament_array) >= 2
    /\ filament_array[1][1] <= epos

\* C11: cmd_ClearFilamentArray, with is_active true or false, empties the
\* queue and runs M221 S100 once, and leaves is_active, the timer and the
\* latest diameter as they were.
C11_ResetFrame ==
    [][ (last_call' = "cmd_ClearFilamentArray")
          => /\ filament_array' = << >>
             /\ scripts' = << NEUTRAL >>
             /\ UNCHANGED << is_active, extrude_factor_update_timer,
                             lastFilamentWidthReading >> ]_vars

\* C11 witness: the reset ran with the controller active, its timer
\* scheduled by a tick and a diameter measured.
C11_Witness ==
    /\ last_call = "cmd_ClearFilamentArray"
    /\ is_active
    /\ extrude_factor_update_timer > NOW
    /\ lastFilamentWidthReading > 0
    /\ filament_array = << >>

\* C11 witness: the reset ran with the controller inactive.
C11_WitnessInactive ==
    /\ last_call = "cmd_ClearFilamentArray"
    /\ ~is_active
    /\ extrude_factor_update_timer = NEVER

\* C12: cmd_M405 while is_active and cmd_M406 while not is_active change
\* neither is_active, the queue nor the timer and run no M221 script.
C12_RedundantCommands ==
    [][ /\ (is_active /\ last_call' = "cmd_M405")
             => /\ UNCHANGED << is_active, filament_array,
                                extrude_factor_update_timer >>
                /\ scripts' = << >>
        /\ (~is_active /\ last_call' = "cmd_M406")
             => /\ UNCHANGED << is_active, filament_array,
                                extrude_factor_update_timer >>
                /\ scripts' = << >> ]_vars

\* C12 witness: cmd_M405 ran while active; the timer still holds the wake
\* time of the last tick and the queue its entries.
C12_Witness ==
    /\ last_call = "cmd_M405"
    /\ is_active
    /\ extrude_factor_update_timer > NOW
    /\ filament_array # << >>

\* C12 witness: cmd_M406 ran while inactive and ran no script.
C12_WitnessDisable ==
    /\ last_call = "cmd_M406"
    /\ ~is_active
    /\ scripts = << >>

\* C13: cmd_M407 reports the latest diameter exactly when it is above the
\* presence threshold of the controller tick, and reports absence
\* otherwise: it answers "present" if and only if a tick on the same
\* diameter would take the filament as present.
C13_QueryAgreesWithTick ==
    (last_call = "cmd_M407")
        => IF filament_exists(lastFilamentWidthReading)
           THEN /\ response[1] = "Filament dia (measured mm): "
                /\ response[2] = lastFilamentWidthReading
           ELSE response[1] = "Filament NOT present"

\* C14: no sequence of sample callbacks, ticks and commands makes a
\* handler raise; in particular not a channel-2 reading before any
\* channel-1 reading, nor a tick started by cmd_M405 before klippy:ready.
C14_NoHandlerRaises == ~error

\* C15: when __init__ raises a configuration error, nothing has been
\* registered: no ADC callback, no timer, no ready handler, no command.
C15_NoPartialActivation == (pc = "config_error") => (registered = {})

\* a sampler callback leaves the queue and the activation state alone and
\* runs no M221 script
SamplerFrame ==
    /\ UNCHANGED << filament_array, is_active, extrude_factor_update_timer >>
    /\ scripts' = << >>

TimeDiff(t) ==
    IF t >= last_hall_1_read_time
    THEN t - last_hall_1_read_time
    ELSE last_hall_1_read_time - t

\* C16 as stated: a channel-2 reading replaces the diameter by the average
\* of the two channel readings exactly when their timestamps are no more
\* than MAX_SENSORS_TIME_DIFF apart, and leaves it otherwise; no sampler
\* callback changes the queue, the activation state or the multiplier.
C16_Original ==
    [][ \A t \in ReadTimes, v \in ReadValues :
          (hall_2_callback(t, v) /\ last_hall_1_read_time # Unset)
            => /\ lastFilamentWidthReading' =
                    IF TimeDiff(t) <= MAX_SENSORS_TIME_DIFF
                    THEN (last_hall_1_read_value + v) \div 2
                    ELSE lastFilamentWidthReading
               /\ SamplerFrame ]_vars

\* C16 amended: a channel-2 reading replaces the diameter by the average
\* of the latest channel-1 reading and itself exactly when there is a
\* channel-1 reading and the two timestamps are less than
\* MAX_SENSORS_TIME_DIFF apart; otherwise (MAX_SENSORS_TIME_DIFF or more
\* apart, or no channel-1 reading yet) the diameter keeps its value; a
\* channel-1 reading never changes the diameter; no sampler callback
\* changes the queue, the activation state or the multiplier.
C16_StalePairRejected ==
    [][ /\ \A t \in ReadTimes, v \in ReadValues :
             hall_2_callback(t, v)
               => /\ lastFilamentWidthReading' =
                       IF /\ last_hall_1_read_time # Unset
                          /\ TimeDiff(t) < MAX_SENSORS_TIME_DIFF
                       THEN (last_hall_1_read_value + v) \div 2
                       ELSE lastFilamentWidthReading
                  /\ SamplerFrame
        /\ (last_call' = "hall_1_callback")
               => /\ UNCHANGED lastFilamentWidthReading
                  /\ SamplerFrame ]_vars

\* C16 witness: a channel-2 reading was combined with a different
\* channel-1 reading while entries were queued.
C16_Witness ==
    /\ last_call = "hall_2_callback" /\ ~error
    /\ lastFilamentWidthReading \notin ReadValues
    /\ lastFilamentWidthReading > 0
    /\ filament_array # << >>

\* C17: a tick on which the latest diameter is above the presence
\* threshold and no entry is due (the queue is empty, or its head has a
\* trigger position beyond the extruder position) runs no M221 script and
\* removes nothing from the queue, and returns its event time + 1 as the
\* next wake time.
C17_NothingDue ==
    [][ \A t \in EventTimes :
          ( /\ extrude_factor_update_event(t)
            /\ toolhead # "None"
            /\ lastFilamentWidthReading > PRESENCE_THRESHOLD
            /\ \/ filament_array = << >>
               \/ filament_array[1][1] > epos )
            => /\ scripts' = << >>
               /\ item' = NoItem
               /\ IsPrefix(filament_array, filament_array')
               /\ extrude_factor_update_timer' = t + 1 ]_vars

\* C17 witness: such a tick ran at the latest event time with two entries
\* pending and emitted nothing.
C17_Witness ==
    /\ TickRan
    /\ lastFilamentWidthReading > PRESENCE_THRESHOLD
    /\ scripts = << >> /\ item = NoItem
    /\ Len(filament_array) >= 2
    /\ filament_array[1][1] > epos
    /\ extrude_factor_update_timer = MaxEventTime + 1

\* C18: when the extruder position never decreases, the queue holds at
\* most floor(measurement_delay / MEASUREMENT_INTERVAL_MM) + 1 entries
\* after every tick and every command, however far the position jumps.
C18_QueueBound ==
    Len(filament_array)
        <= (measurement_delay \div MEASUREMENT_INTERVAL_MM) + 1

\* C18 witness: after a jump of the position a tick left the queue at the
\* bound, with more than one entry, its head already due.
C18_Witness ==
    /\ TickRan
    /\ Len(filament_array)
          = (measurement_delay \div MEASUREMENT_INTERVAL_MM) + 1
    /\ Len(filament_array) >= 2
    /\ filament_array[1][1] <= epos

\* C19: between handlers every queued entry has a diameter above the
\* presence threshold, so the diameter a tick divides by at line 165 is
\* never zero.
C19_QueuedDiametersPresent ==
    /\ \A i \in 1..Len(filament_array) :
          filament_array[i][2] > PRESENCE_THRESHOLD
    /\ (item # NoItem) => item[2] > PRESENCE_THRESHOLD

\* C19 witness: a tick enqueued a non-zero diameter below the threshold
\* behind a present one and cleared the queue.
C19_Witness ==
    /\ TickRan
    /\ Len(array_after_update) >= 2
    /\ array_after_update[1][2] > PRESENCE_THRESHOLD
    /\ array_after_update[Len(array_after_update)][2] < PRESENCE_THRESHOLD
    /\ array_after_update[Len(array_after_update)][2] > 0
    /\ filament_array = << >>

\* trigger positions an entry can have
TriggerPositions == { p + LiveConfig.delay : p \in Positions }

Queued(T) == \E i \in 1..Len(filament_array) : filament_array[i][1] = T

\* the controller is active and ticking, the filament is present, no
\* reset was issued and the extruder is at or past position T
DrainHolds(T) ==
    /\ is_active
    /\ extrude_factor_update_timer # NEVER
    /\ toolhead # "None"
    /\ ~error
    /\ lastFilamentWidthReading > PRESENCE_THRESHOLD
    /\ last_call # "cmd_ClearFilamentArray"
    /\ epos >= T

\* C20: with the tick kept running, an entry that is queued is eventually
\* dequeued by a tick, unless the controller stops being active, the
\* filament stops being present, a reset is issued or the extruder is
\* before the entry's trigger position; and a tick always dequeues the
\* entry with the smallest trigger position, the one enqueued first.
C20_BacklogDrains ==
    /\ \A T \in TriggerPositions :
          Queued(T) ~> ((item # NoItem /\ item[1] = T) \/ ~DrainHolds(T))
    /\ [][ (TickStep /\ item' # NoItem)
             => /\ item' = filament_array[1]
                /\ \A i \in 1..Len(filament_array') :
                      filament_array'[i][1] > item'[1] ]_vars

\* C20 witness: a tick of the active controller dequeued an entry that had
\* been due for at least one interval and left another due entry queued.
C20_Witness ==
    /\ TickRan /\ is_active
    /\ item # NoItem
    /\ item[1] + MEASUREMENT_INTERVAL_MM <= epos
    /\ filament_array # << >>
    /\ filament_array[1][1] <= epos
    /\ lastFilamentWidthReading > PRESENCE_THRESHOLD

====
